---- MODULE Spec2Model ----
(***************************************************************************)
(* Texas Hold'em engine of PlexSheep/poks: one hand (Game) driven through  *)
(* Game::process_action, and the CPU strategy driving it through a tick.   *)
(*                                                                         *)
(* Currency is an i64 count of cents (src/src/currency/mod.rs:13); every   *)
(* amount below is that integer.  PlayerIDs are the 0-based indices of the *)
(* players vector.  Option<T> is modelled as a sequence: None == <<>> and  *)
(* Some(x) == <<x>>.                                                       *)
(*                                                                         *)
(* The engine is split over several source files.  process_action and      *)
(* apply_action are those of game/action.rs, the blinds, advance_phase and *)
(* showdown those of game/betting.rs, payout that of game/winner.rs, the   *)
(* seat that of players/seat.rs; build, set_phase, pot, set_winner and the *)
(* card drawing are those of game/mod.rs.  game/betting.rs leaves          *)
(* advance_turn, start_betting and is_betting_complete as todo!(); the     *)
(* turn step the repository implements is Game::next_turn of game/mod.rs,  *)
(* and the three are modelled after it.                                    *)
(***************************************************************************)
EXTENDS Integers, Sequences, FiniteSets, TLC

VARIABLES
    game,      \* the Game of the hand being played (src/src/game/mod.rs:54)
    seats,     \* Lobby::players: the balance of each seat as the Lobby holds it
    last,      \* the last call made and the Result it returned
    panicked,  \* "" while the process runs, else the message of the panic that ended it
    action_log, \* the Lobby's action log (src/src/lobby/mod.rs:21)
    games_played, \* Lobby::games_played
    local,     \* a PlayerLocal's shared action slot and the threads using it
    twin,      \* Some(g) for a second Game g built from the same seed, else None
    cur,       \* Some(r) for a Currency computation r under test, else None
    shown      \* Some(r) for a show_eval_cards computation r under test, else None

vars == <<game, seats, last, panicked, action_log, games_played, local, twin, cur, shown>>

\* the variables of a Lobby and its Game
engine_vars == <<game, seats, last, panicked, action_log, games_played>>

----------------------------------------------------------------------------
(* Bounds of the model *)

\* seat counts 2..MaxSeats
MaxSeats == 3
\* seeds 1..MaxSeed
MaxSeed == 2
\* a seat starts broke or with MaxCash small blinds
MaxCash == 4
\* the amounts a caller may put in an Action are 0..MaxAmount small blinds
MaxAmount == 4

(* Program constants *)

\* CU!(0, 50)
small_blind_amount == 50
\* CU!(1)
big_blind_amount == 100
\* cards in a poker deck
DeckSize == 52

None == <<>>
Some(x) == <<x>>

Phases == <<"Preflop", "Flop", "Turn", "River">>

\* position of a phase in the derived ordering of enum Phase
PhaseIdx(ph) == CHOOSE i \in 1..4 : Phases[i] = ph

----------------------------------------------------------------------------
(* Helpers over a Game value g (a record with the fields of struct Game) *)

PlayerIDs(g) == DOMAIN g.players

NumPlayers(g) == Cardinality(DOMAIN g.players)

RECURSIVE SumTo(_, _)
SumTo(f, k) == IF k < 0 THEN 0 ELSE f[k] + SumTo(f, k - 1)

SetMax(S) == CHOOSE m \in S : \A x \in S : x <= m

\* PlayerState::is_playing
is_playing(st) == st \in {"Playing", "AllIn"}

\* Game::pot
pot(g) ==
    SumTo([i \in PlayerIDs(g) |-> g.players[i].total_bet + g.players[i].round_bet],
          NumPlayers(g) - 1)

\* Game::highest_bet_of_round
highest_bet_of_round(g) == SetMax({g.players[i].round_bet : i \in PlayerIDs(g)})

\* a finished test that looks at GameState, which no code path ever sets
is_finished_by_state(g) == g.state = "Finished"

\* Game::is_finished
is_finished(g) == g.winner # None

\* Game::min_raise_amount
min_raise_amount(g) == g.big_blind

\* glog!/glogf!: push one entry on the per-hand log
glog(g, who, msg) == [g EXCEPT !.game_log = Append(@, [pid |-> who, msg |-> msg])]

----------------------------------------------------------------------------
(* Seat *)

\* a withdrawal that subtracts first and checks the balance afterwards
withdraw_then_check(seat, cu) ==
    [ok |-> seat.currency >= cu,
     seat |-> [seat EXCEPT !.currency = @ - cu],
     delta |-> IF seat.currency >= cu THEN cu ELSE 0]

\* Seat::withdraw_currency: Err(TooLittleCurrency) when the balance is below cu,
\* else the balance is reduced and Ok(cu) returned
withdraw_currency(seat, cu) ==
    IF seat.currency < cu
    THEN [ok |-> FALSE, seat |-> seat, delta |-> 0]
    ELSE [ok |-> TRUE, seat |-> [seat EXCEPT !.currency = @ - cu], delta |-> cu]

\* Seat::add_currency / *player.currency_mut() += cu
add_currency(seat, cu) == [seat EXCEPT !.currency = @ + cu]

----------------------------------------------------------------------------
(* Construction of a hand *)

\* poker::deck::shuffled_with on RNG::from_seed(seed): the shuffled deck, bottom
\* first, a permutation of the cards 1..52 that the seed determines (the odd
\* multiplier 2 * seed + 1 is prime to 52 for the seeds used).  Cards are
\* drawn from the tail (Vec::pop).
shuffled_with(seed) ==
    [i \in 1..DeckSize |-> ((i * (2 * seed + 1) + seed) % DeckSize) + 1]

\* Player::new: Playing, zero bets, a clone of the lobby's seat, the dealt hand
NewPlayer(hand, cash) ==
    [state |-> "Playing", total_bet |-> 0, round_bet |-> 0,
     hand |-> hand, seat |-> [currency |-> cash]]

\* a small blind that is always the seat after the dealer
small_blind_after_dealer(g) == (g.dealer + 1) % NumPlayers(g)

\* Game::small_blind_position
small_blind_position(g) ==
    IF NumPlayers(g) = 2 THEN g.dealer ELSE (g.dealer + 1) % NumPlayers(g)

\* Game::big_blind_position
big_blind_position(g) ==
    IF NumPlayers(g) = 2
    THEN (g.dealer + 1) % NumPlayers(g)
    ELSE (g.dealer + 2) % NumPlayers(g)

\* Game::post_blinds: both seats are debited by small_blind, with no check of
\* the balance; round_bet grows by the blind that is posted
post_blinds(g) ==
    LET sb_pos == small_blind_position(g)
        bb_pos == big_blind_position(g)
        g1 == [g EXCEPT !.players[sb_pos].seat.currency = @ - g.small_blind,
                        !.players[sb_pos].round_bet = @ + g.small_blind]
        g2 == glog(g1, Some(sb_pos), "Posts the small blind")
        g3 == [g2 EXCEPT !.players[bb_pos].seat.currency = @ - g.small_blind,
                         !.players[bb_pos].round_bet = @ + g.big_blind]
    IN  glog(g3, Some(bb_pos), "Posts the big blind")

\* a build whose shuffle is keyed on the seed and on the first seat's balance
buid_seeded_by_stack(cash, dealer_pos, seed) ==
    LET n == Cardinality(DOMAIN cash)
        shuffled == shuffled_with(seed + (IF cash[0] = 0 THEN 0 ELSE 1))
        hand(i) == <<shuffled[DeckSize - 2 * i], shuffled[DeckSize - 2 * i - 1]>>
        g == [phase |-> "Preflop",
              turn |-> 0,
              dealer |-> dealer_pos,
              players |-> [i \in 0..(n - 1) |-> NewPlayer(hand(i), cash[i])],
              community_cards |-> <<>>,
              winner |-> None,
              deck |-> SubSeq(shuffled, 1, DeckSize - 2 * n),
              seed |-> seed,
              state |-> "RaiseAllowed",
              small_blind |-> small_blind_amount,
              big_blind |-> big_blind_amount,
              game_log |-> <<>>]
    IN  post_blinds(g)

\* a build that reads the hands off the deck and leaves their cards in it
buid_without_popping(cash, dealer_pos, seed) ==
    LET n == Cardinality(DOMAIN cash)
        shuffled == shuffled_with(seed)
        hand(i) == <<shuffled[DeckSize - 2 * i], shuffled[DeckSize - 2 * i - 1]>>
        g == [phase |-> "Preflop",
              turn |-> 0,
              dealer |-> dealer_pos,
              players |-> [i \in 0..(n - 1) |-> NewPlayer(hand(i), cash[i])],
              community_cards |-> <<>>,
              winner |-> None,
              deck |-> shuffled,
              seed |-> seed,
              state |-> "RaiseAllowed",
              small_blind |-> small_blind_amount,
              big_blind |-> big_blind_amount,
              game_log |-> <<>>]
    IN  post_blinds(g)

\* Game::buid_with_seed, for a seat list cash (balance per seat) the asserts accept:
\* seat i is dealt the two cards on top of the deck, in seat order
buid_with_seed(cash, dealer_pos, seed) ==
    LET n == Cardinality(DOMAIN cash)
        shuffled == shuffled_with(seed)
        hand(i) == <<shuffled[DeckSize - 2 * i], shuffled[DeckSize - 2 * i - 1]>>
        g == [phase |-> "Preflop",
              turn |-> 0,
              dealer |-> dealer_pos,
              players |-> [i \in 0..(n - 1) |-> NewPlayer(hand(i), cash[i])],
              community_cards |-> <<>>,
              winner |-> None,
              deck |-> SubSeq(shuffled, 1, DeckSize - 2 * n),
              seed |-> seed,
              state |-> "RaiseAllowed",
              small_blind |-> small_blind_amount,
              big_blind |-> big_blind_amount,
              game_log |-> <<>>]
    IN  post_blinds(g)

----------------------------------------------------------------------------
(* Phases, cards, winner *)

\* a set_phase that changes the phase and leaves the bets of the round standing
set_phase_keeps_round_bets(g, phase) == glog([g EXCEPT !.phase = phase], None, "Phase")

\* a set_phase that clears the bets of the round without adding them to total_bet
set_phase_drops_round_bets(g, phase) ==
    LET g1 == [g EXCEPT !.players =
                   [i \in PlayerIDs(g) |-> [g.players[i] EXCEPT !.round_bet = 0]],
                        !.phase = phase]
    IN  glog(g1, None, "Phase")

\* Game::set_phase: every round_bet is folded into total_bet and reset
set_phase(g, phase) ==
    LET g1 == [g EXCEPT !.players =
                   [i \in PlayerIDs(g) |->
                       [g.players[i] EXCEPT !.total_bet = @ + g.players[i].round_bet,
                                            !.round_bet = 0]],
                        !.phase = phase]
    IN  glog(g1, None, "Phase")

\* a payout of the bets of the finished rounds only
payout_total_bets(w, g) ==
    LET winnings == SumTo([i \in PlayerIDs(g) |-> g.players[i].total_bet],
                          NumPlayers(g) - 1)
    IN  IF winnings = 0
        THEN [game |-> g, panic |-> "assertion failed: winnings != 0"]
        ELSE [game |-> [g EXCEPT !.players[w.pid].seat =
                                     add_currency(g.players[w.pid].seat, winnings)],
              panic |-> ""]

\* Winner::payout: asserts a non-zero pot, credits it to the winner's seat
payout(w, g) ==
    LET winnings == pot(g)
    IN  IF winnings = 0
        THEN [game |-> g, panic |-> "assertion failed: winnings != 0"]
        ELSE [game |-> [g EXCEPT !.players[w.pid].seat =
                                     add_currency(g.players[w.pid].seat, winnings)],
              panic |-> ""]

\* Game::set_winner: payout, then the winner is recorded and logged
set_winner(g, w) ==
    LET paid == payout(w, g)
    IN  IF paid.panic # ""
        THEN paid
        ELSE [game |-> glog([paid.game EXCEPT !.winner = Some(w)], None, "Winner"),
              panic |-> ""]

\* a deal that puts k cards on the table without burning one
deal_without_burn(g, k) ==
    IF Len(g.deck) < k
    THEN [game |-> g, panic |-> "called Option::unwrap() on a None value"]
    ELSE LET top == Len(g.deck)
             drawn == [j \in 1..k |-> g.deck[top - j + 1]]
         IN  [game |-> [g EXCEPT !.deck = SubSeq(@, 1, top - k),
                                 !.community_cards = @ \o drawn],
              panic |-> ""]

\* the burn (Game::draw_card) and k calls of Game::add_table_card; a pop of an
\* empty deck is an unwrap of None
deal(g, k) ==
    IF Len(g.deck) < k + 1
    THEN [game |-> g, panic |-> "called Option::unwrap() on a None value"]
    ELSE LET top == Len(g.deck) - 1
             drawn == [j \in 1..k |-> g.deck[top - j + 1]]
         IN  [game |-> [g EXCEPT !.deck = SubSeq(@, 1, top - k),
                                 !.community_cards = @ \o drawn],
              panic |-> ""]

\* rank of a card, 0 (Two) .. 12 (Ace)
CardRank(c) == (c - 1) % 13

\* Evaluator::evaluate_five of the poker crate, reduced to its high card: the
\* engine only compares the values it returns
evaluate_five(cards) == SetMax({CardRank(cards[j]) : j \in DOMAIN cards})

\* Game::showdown (game/betting.rs): the players in state Playing are evaluated
\* and sorted best first; `evals.iter().any(|e| e.1 == evals[0].1)` holds as soon
\* as there is one evaluation (evals[0] equals itself), and evals[0] of an empty
\* vector is out of bounds
showdown(g) ==
    LET evaluated == {i \in PlayerIDs(g) : g.players[i].state = "Playing"}
        eval(i) == evaluate_five(g.players[i].hand \o g.community_cards)
        best == CHOOSE i \in evaluated :
                    \A j \in evaluated :
                        eval(j) < eval(i) \/ (eval(j) = eval(i) /\ i <= j)
    IN  IF evaluated = {}
        THEN [game |-> g, panic |-> "index out of bounds"]
        ELSE IF \E j \in evaluated : eval(j) = eval(best)
        THEN [game |-> g, panic |-> "not yet implemented: We have a draw!"]
        ELSE set_winner(g, [kind |-> "KnownCards", pot |-> pot(g), pid |-> best,
                            eval |-> eval(best)])

\* Game::start_betting is todo!() in game/betting.rs; after Game::next_turn the
\* new betting round starts with seat 0
start_betting(g) == [g EXCEPT !.turn = 0]

\* an advance_phase that runs the showdown as soon as the River card is dealt
advance_phase_showdown_on_river(g) ==
    LET step(k, phase) ==
            LET d == deal(g, k)
            IN  IF d.panic # "" THEN d
                ELSE [game |-> start_betting(set_phase(d.game, phase)), panic |-> ""]
    IN  CASE g.phase = "Preflop" -> step(3, "Flop")
          [] g.phase = "Flop" -> step(1, "Turn")
          [] g.phase = "Turn" ->
                 LET d == deal(g, 1)
                 IN  IF d.panic # "" THEN d
                     ELSE showdown(set_phase(d.game, "River"))
          [] g.phase = "River" -> showdown(g)

\* an advance_phase whose Flop arm goes straight to the River
advance_phase_skips_turn(g) ==
    LET step(k, phase) ==
            LET d == deal(g, k)
            IN  IF d.panic # "" THEN d
                ELSE [game |-> start_betting(set_phase(d.game, phase)), panic |-> ""]
    IN  CASE g.phase = "Preflop" -> step(3, "Flop")
          [] g.phase = "Flop" -> step(1, "River")
          [] g.phase = "Turn" -> step(1, "River")
          [] g.phase = "River" -> showdown(g)

\* Game::advance_phase (game/betting.rs)
advance_phase(g) ==
    LET step(k, phase) ==
            LET d == deal(g, k)
            IN  IF d.panic # "" THEN d
                ELSE [game |-> start_betting(set_phase(d.game, phase)), panic |-> ""]
    IN  CASE g.phase = "Preflop" -> step(3, "Flop")
          [] g.phase = "Flop" -> step(1, "Turn")
          [] g.phase = "Turn" -> step(1, "River")
          [] g.phase = "River" -> showdown(g)

\* Game::next_turn (game/mod.rs): the turn moves to the next seat, and the
\* phase advances when it wraps to seat 0
next_turn(g) ==
    LET t == (g.turn + 1) % NumPlayers(g)
    IN  IF t = 0
        THEN advance_phase([g EXCEPT !.turn = t])
        ELSE [game |-> [g EXCEPT !.turn = t], panic |-> ""]

\* Game::advance_turn is todo!() in game/betting.rs: the turn step of the
\* repository is Game::next_turn
advance_turn(g) == next_turn(g)

\* Game::is_betting_complete is todo!() in game/betting.rs: the round is over
\* when the seat that acted was the last one (Game::next_turn wraps to 0)
is_betting_complete(g) == (g.turn + 1) % NumPlayers(g) = 0

----------------------------------------------------------------------------
(* Actions of a player *)

Fold == [kind |-> "Fold", amount |-> 0]
Call(a) == [kind |-> "Call", amount |-> a]
Raise(a) == [kind |-> "Raise", amount |-> a]
AllIn(a) == [kind |-> "AllIn", amount |-> a]

\* Game::action_call: check if no bet, else call the difference
action_call(g) == Call(highest_bet_of_round(g) - g.players[g.turn].round_bet)

\* Game::action_raise: the call plus the amount to raise over it
action_raise(g, bet_over_call) ==
    Raise((highest_bet_of_round(g) - g.players[g.turn].round_bet) + bet_over_call)

\* the acting player after a withdrawal of cu that succeeded: round_bet += delta
Committed(g, w) ==
    [g EXCEPT !.players[g.turn].seat = w.seat,
              !.players[g.turn].round_bet = @ + w.delta]

\* an apply_action that takes an AllIn of any amount the seat can pay
apply_action_allin_unchecked(g, action) ==
    LET highest_bet == highest_bet_of_round(g)
        min_raise == min_raise_amount(g)
        player == g.players[g.turn]
        amount == action.amount
        Err(e) == [game |-> g, res |-> e]
        Ok(h) == [game |-> h, res |-> "Ok"]
        \* `?` on withdraw_currency: the seat is left as the failed call left it
        Failed(h, w) == [game |-> [h EXCEPT !.players[g.turn].seat = w.seat],
                         res |-> "TooLittleCurrency"]
    IN  CASE action.kind = "Fold" ->
                Ok([g EXCEPT !.players[g.turn].state = "Folded"])
          [] action.kind = "Call" ->
                LET needed == highest_bet - player.round_bet
                    w == withdraw_currency(player.seat, amount)
                IN  IF amount # needed THEN Err("BetAmountMismatch")
                    ELSE IF amount > player.seat.currency THEN Err("InsufficientFunds")
                    ELSE IF ~w.ok THEN Failed(g, w)
                    ELSE Ok(Committed(g, w))
          [] action.kind = "Raise" ->
                LET call_amount == highest_bet - player.round_bet
                    w == withdraw_currency(player.seat, amount + call_amount)
                IN  IF g.state = "RaiseDisallowed" THEN Err("RaiseNotAllowed")
                    ELSE IF amount > player.seat.currency THEN Err("InsufficientFunds")
                    ELSE IF amount < min_raise THEN Err("RaiseTooSmall")
                    ELSE IF ~w.ok THEN Failed(g, w)
                    ELSE Ok(Committed(g, w))
          [] action.kind = "AllIn" ->
                LET g1 == [g EXCEPT !.players[g.turn].state = "AllIn"]
                    w == withdraw_currency(player.seat, amount)
                IN  IF ~w.ok THEN Failed(g1, w)
                    ELSE Ok(Committed(g1, w))

\* an apply_action whose Fold hands the bet of the round back to the seat
apply_action_fold_refunds(g, action) ==
    LET highest_bet == highest_bet_of_round(g)
        min_raise == min_raise_amount(g)
        player == g.players[g.turn]
        amount == action.amount
        Err(e) == [game |-> g, res |-> e]
        Ok(h) == [game |-> h, res |-> "Ok"]
        \* `?` on withdraw_currency: the seat is left as the failed call left it
        Failed(h, w) == [game |-> [h EXCEPT !.players[g.turn].seat = w.seat],
                         res |-> "TooLittleCurrency"]
    IN  CASE action.kind = "Fold" ->
                Ok([g EXCEPT !.players[g.turn].state = "Folded",
                             !.players[g.turn].seat.currency = @ + player.round_bet,
                             !.players[g.turn].round_bet = 0])
          [] action.kind = "Call" ->
                LET needed == highest_bet - player.round_bet
                    w == withdraw_currency(player.seat, amount)
                IN  IF amount # needed THEN Err("BetAmountMismatch")
                    ELSE IF amount > player.seat.currency THEN Err("InsufficientFunds")
                    ELSE IF ~w.ok THEN Failed(g, w)
                    ELSE Ok(Committed(g, w))
          [] action.kind = "Raise" ->
                LET call_amount == highest_bet - player.round_bet
                    w == withdraw_currency(player.seat, amount + call_amount)
                IN  IF g.state = "RaiseDisallowed" THEN Err("RaiseNotAllowed")
                    ELSE IF amount > player.seat.currency THEN Err("InsufficientFunds")
                    ELSE IF amount < min_raise THEN Err("RaiseTooSmall")
                    ELSE IF ~w.ok THEN Failed(g, w)
                    ELSE Ok(Committed(g, w))
          [] action.kind = "AllIn" ->
                LET g1 == [g EXCEPT !.players[g.turn].state = "AllIn"]
                    w == withdraw_currency(player.seat, amount)
                IN  IF amount # player.seat.currency THEN Err("BetAmountMismatch")
                    ELSE IF ~w.ok THEN Failed(g1, w)
                    ELSE Ok(Committed(g1, w))

\* Game::apply_action: the Result and the game it leaves
apply_action(g, action) ==
    LET highest_bet == highest_bet_of_round(g)
        min_raise == min_raise_amount(g)
        player == g.players[g.turn]
        amount == action.amount
        Err(e) == [game |-> g, res |-> e]
        Ok(h) == [game |-> h, res |-> "Ok"]
        \* `?` on withdraw_currency: the seat is left as the failed call left it
        Failed(h, w) == [game |-> [h EXCEPT !.players[g.turn].seat = w.seat],
                         res |-> "TooLittleCurrency"]
    IN  CASE action.kind = "Fold" ->
                Ok([g EXCEPT !.players[g.turn].state = "Folded"])
          [] action.kind = "Call" ->
                LET needed == highest_bet - player.round_bet
                    w == withdraw_currency(player.seat, amount)
                IN  IF amount # needed THEN Err("BetAmountMismatch")
                    ELSE IF amount > player.seat.currency THEN Err("InsufficientFunds")
                    ELSE IF ~w.ok THEN Failed(g, w)
                    ELSE Ok(Committed(g, w))
          [] action.kind = "Raise" ->
                LET call_amount == highest_bet - player.round_bet
                    w == withdraw_currency(player.seat, amount + call_amount)
                IN  IF g.state = "RaiseDisallowed" THEN Err("RaiseNotAllowed")
                    ELSE IF amount > player.seat.currency THEN Err("InsufficientFunds")
                    ELSE IF amount < min_raise THEN Err("RaiseTooSmall")
                    ELSE IF ~w.ok THEN Failed(g, w)
                    ELSE Ok(Committed(g, w))
          [] action.kind = "AllIn" ->
                LET g1 == [g EXCEPT !.players[g.turn].state = "AllIn"]
                    w == withdraw_currency(player.seat, amount)
                IN  IF amount # player.seat.currency THEN Err("BetAmountMismatch")
                    ELSE IF ~w.ok THEN Failed(g1, w)
                    ELSE Ok(Committed(g1, w))

\* a process_action that takes "no action" for a pass and moves the turn on
process_action_none_passes(g, action) ==
    LET active_players == {i \in PlayerIDs(g) : is_playing(g.players[i].state)}
        Ret(h, r) == [game |-> h, res |-> r, panic |-> ""]
        Step(s) == [game |-> s.game, res |-> IF s.panic = "" THEN "Ok" ELSE "panic",
                    panic |-> s.panic]
    IN  IF is_finished(g) THEN Ret(g, "GameFinished")
        ELSE IF Cardinality(active_players) <= 1
        THEN IF active_players # {}
             THEN LET winner_id == CHOOSE i \in active_players :
                                       \A j \in active_players : i <= j
                  IN  Step(set_winner(g, [kind |-> "UnknownCards", pot |-> pot(g),
                                          pid |-> winner_id]))
             ELSE Ret(g, "NoActivePlayers")
        ELSE IF ~is_playing(g.players[g.turn].state) \/ action = None
        THEN Step(advance_turn(g))
        ELSE LET applied == apply_action(g, action[1])
             IN  IF applied.res # "Ok" THEN Ret(applied.game, applied.res)
                 ELSE IF is_betting_complete(applied.game)
                 THEN Step(advance_phase(applied.game))
                 ELSE Step(advance_turn(applied.game))

\* a process_action that skips a seat that is not active and then goes on to
\* apply the action to the player who becomes current
process_action_skip_then_apply(g, action) ==
    LET active_players == {i \in PlayerIDs(g) : is_playing(g.players[i].state)}
        Ret(h, r) == [game |-> h, res |-> r, panic |-> ""]
        Step(s) == [game |-> s.game, res |-> IF s.panic = "" THEN "Ok" ELSE "panic",
                    panic |-> s.panic]
        Rest(h) ==
            IF action = None THEN Ret(h, "Ok")
            ELSE LET applied == apply_action(h, action[1])
                 IN  IF applied.res # "Ok" THEN Ret(applied.game, applied.res)
                     ELSE IF is_betting_complete(applied.game)
                     THEN Step(advance_phase(applied.game))
                     ELSE Step(advance_turn(applied.game))
    IN  IF is_finished(g) THEN Ret(g, "GameFinished")
        ELSE IF Cardinality(active_players) <= 1
        THEN IF active_players # {}
             THEN LET winner_id == CHOOSE i \in active_players :
                                       \A j \in active_players : i <= j
                  IN  Step(set_winner(g, [kind |-> "UnknownCards", pot |-> pot(g),
                                          pid |-> winner_id]))
             ELSE Ret(g, "NoActivePlayers")
        ELSE IF ~is_playing(g.players[g.turn].state)
        THEN LET skipped == advance_turn(g)
             IN  IF skipped.panic # "" THEN Step(skipped) ELSE Rest(skipped.game)
        ELSE Rest(g)

\* Game::process_action (game/action.rs), action an Option<Action>: the Result,
\* the game it leaves and the panic that ended it, if any
process_action(g, action) ==
    LET active_players == {i \in PlayerIDs(g) : is_playing(g.players[i].state)}
        Ret(h, r) == [game |-> h, res |-> r, panic |-> ""]
        Step(s) == [game |-> s.game, res |-> IF s.panic = "" THEN "Ok" ELSE "panic",
                    panic |-> s.panic]
    IN  IF is_finished(g) THEN Ret(g, "GameFinished")
        ELSE IF Cardinality(active_players) <= 1
        THEN IF active_players # {}
             THEN LET winner_id == CHOOSE i \in active_players :
                                       \A j \in active_players : i <= j
                  IN  Step(set_winner(g, [kind |-> "UnknownCards", pot |-> pot(g),
                                          pid |-> winner_id]))
             ELSE Ret(g, "NoActivePlayers")
        ELSE IF ~is_playing(g.players[g.turn].state)
        THEN Step(advance_turn(g))
        ELSE IF action = None THEN Ret(g, "Ok")
        ELSE LET applied == apply_action(g, action[1])
             IN  IF applied.res # "Ok" THEN Ret(applied.game, applied.res)
                 ELSE IF is_betting_complete(applied.game)
                 THEN Step(advance_phase(applied.game))
                 ELSE Step(advance_turn(applied.game))

----------------------------------------------------------------------------
(* The hand driven by a caller of process_action *)

\* the amounts a caller can assert in an action
Amounts == {k * small_blind_amount : k \in 0..MaxAmount}

\* the seeds Game::seed can draw
Seeds == 1..MaxSeed

Actions == {Fold} \cup {Call(a) : a \in Amounts} \cup {Raise(a) : a \in Amounts}
               \cup {AllIn(a) : a \in Amounts}

\* the seat lists build accepts: 2..MaxSeats seats, each broke or with MaxCash
\* small blinds
SeatLists ==
    UNION {[0..(n - 1) -> {0, MaxCash * small_blind_amount}] : n \in 2..MaxSeats}

\* what `last` keeps of a call: the kind of the action, the Result, and the
\* amount of an action that was accepted
Called(op, action, res) ==
    [op |-> op,
     kind |-> IF action = None THEN "None" ELSE action[1].kind,
     amount |-> IF action # None /\ res = "Ok" THEN action[1].amount ELSE 0,
     res |-> res]

\* no PlayerLocal sits at the table
NoLocal == [next_action |-> None, lock |-> 0, pc |-> <<>>, set_calls |-> 0,
            returned |-> <<>>, act_result |-> <<>>]

\* Game::build on a seat list, with a dealer position in range
Init ==
    \E cash \in SeatLists : \E dealer_pos \in DOMAIN cash : \E seed \in Seeds :
        /\ seats = cash
        /\ game = buid_with_seed(cash, dealer_pos, seed)
        /\ last = [op |-> "build", kind |-> "None", amount |-> 0, res |-> "Ok"]
        /\ panicked = ""
        /\ action_log = <<>>
        /\ games_played = 0
        /\ local = NoLocal
        /\ twin = None
        /\ cur = None
        /\ shown = None

\* one call of Game::process_action by the owner of the game
ProcessAction ==
    /\ panicked = ""
    /\ \E action \in {None} \cup {Some(a) : a \in Actions} :
        LET r == process_action(game, action)
        IN  /\ game' = r.game
            /\ panicked' = r.panic
            /\ last' = Called("process_action", action, r.res)
    /\ UNCHANGED <<seats, action_log, games_played, local, twin, cur, shown>>

Next == ProcessAction

Spec == Init /\ [][Next]_vars

----------------------------------------------------------------------------
(* The hand driven by the Lobby with CPU players on every seat *)

\* seat counts 2..MaxCpuSeats of a CPU-only lobby
MaxCpuSeats == 2
\* Lobby::tick_game is followed while the acting seat's Lobby balance is at
\* least -MaxOverdraft
MaxOverdraft == 0

\* Currency::new(credits, cents)
CentsPerCredit == 100
CU(credits) == credits * CentsPerCredit

\* startc of get_world in tests/test_play_game.rs, in credits
StartCredits == 5000
\* CU!(10) of PlayerCPU::act
cpu_raise_over_call == 10
\* CU!(100) of PlayerCPU::act
cpu_flat_raise == 100
\* ACTION_LOG_SIZE
ACTION_LOG_SIZE == 2000

\* the draws of gen_range(0..=100) at the ends of the ranges act matches on
Discs == {0, 9, 10, 69, 70, 98, 99, 100}

\* PlayerCPU::act for the draw disc: a Raise the player cannot afford is
\* replaced by Fold
act(g, player, disc) ==
    LET a == CASE disc < 10 -> Fold
               [] disc >= 10 /\ disc < 70 -> action_call(g)
               [] disc >= 70 /\ disc < 99 -> action_raise(g, CU(cpu_raise_over_call))
               [] disc = 99 -> Raise(CU(cpu_flat_raise))
               [] disc = 100 -> AllIn(player.seat.currency)
    IN  IF a.kind = "Raise" /\ a.amount >= player.seat.currency THEN Fold ELSE a

\* Action::prepare_transaction: the amount of a Call, Raise or AllIn
prepare_transaction(action) ==
    IF action.kind = "Fold" THEN None ELSE Some(action.amount)

\* a push that refuses new items once the queue is full
push_all_keeps_oldest(queue, items) ==
    LET room == ACTION_LOG_SIZE - Len(queue)
    IN  queue \o SubSeq(items, 1, IF Len(items) < room THEN Len(items) ELSE room)

\* CircularQueue::push of every item: the oldest entry goes when the queue is full
RECURSIVE push_all(_, _)
push_all(queue, items) ==
    IF items = <<>> THEN queue
    ELSE LET q == Append(queue, Head(items))
         IN  push_all(IF Len(q) > ACTION_LOG_SIZE THEN Tail(q) ELSE q, Tail(items))

\* Game::take_gamelog leaves an empty log
take_gamelog(g) == [g EXCEPT !.game_log = <<>>]

\* Lobby::tick_game.  Transaction::finish debits the Lobby's seat and then
\* writes through Transaction::garbage, a &mut to an immutable static: the write
\* either lands or ends the process.  discs are the draws of gen_range the
\* acting CPU player can make.
TickGameDrawing(discs) ==
    /\ panicked = ""
    /\ UNCHANGED <<games_played, local, twin, cur, shown>>
    /\ seats[game.turn] >= -MaxOverdraft
    /\ IF is_finished(game)
       THEN /\ last' = [op |-> "tick_game", kind |-> "None", amount |-> 0,
                        res |-> "GameFinished"]
            /\ UNCHANGED <<game, seats, panicked, action_log>>
       ELSE \E disc \in discs, landed \in BOOLEAN :
                LET pid == game.turn
                    action == act(game, game.players[pid], disc)
                    possible_transaction == prepare_transaction(action)
                    r == process_action(game, Some(action))
                    debited == IF possible_transaction = None THEN seats
                               ELSE [seats EXCEPT ![pid] = @ - possible_transaction[1]]
                IN  IF r.panic # ""
                    THEN /\ game' = r.game
                         /\ panicked' = r.panic
                         /\ last' = Called("tick_game", Some(action), "panic")
                         /\ UNCHANGED <<seats, action_log>>
                    ELSE IF possible_transaction # None /\ ~landed
                    THEN /\ game' = r.game
                         /\ seats' = debited
                         /\ panicked' = "write through Transaction::garbage"
                         /\ last' = Called("tick_game", Some(action), "panic")
                         /\ UNCHANGED action_log
                    ELSE /\ game' = take_gamelog(r.game)
                         /\ seats' = debited
                         /\ action_log' = push_all(action_log, r.game.game_log)
                         /\ last' = Called("tick_game", Some(action), r.res)
                         /\ UNCHANGED panicked

\* Lobby::tick_game with every draw of Discs
TickGame == TickGameDrawing(Discs)

\* get_world and Lobby::start_new_game: CPU seats with StartCredits each and a
\* fresh hand
InitCPU ==
    \E n \in 2..MaxCpuSeats : \E played \in 1..n : \E seed \in Seeds :
        /\ seats = [i \in 0..(n - 1) |-> CU(StartCredits)]
        /\ games_played = played
        /\ game = buid_with_seed(seats, played % n, seed)
        /\ last = [op |-> "build", kind |-> "None", amount |-> 0, res |-> "Ok"]
        /\ panicked = ""
        /\ action_log = <<>>
        /\ local = NoLocal
        /\ twin = None
        /\ cur = None
        /\ shown = None

NextCPU == TickGame

SpecCPU == InitCPU /\ [][NextCPU]_vars

----------------------------------------------------------------------------
(* A Lobby that deals hand after hand *)

\* Lobby::start_new_game is followed while games_played < MaxGames
MaxGames == 6

\* a start_new_game that deals without counting the game
start_new_game_uncounted(played, cash, seed) ==
    [games_played |-> played,
     game |-> buid_with_seed(cash, played % Cardinality(DOMAIN cash), seed)]

\* Lobby::start_new_game for the seed Game::build draws: games_played and the
\* new Game
start_new_game(played, cash, seed) ==
    LET count == played + 1
        dealer_pos == count % Cardinality(DOMAIN cash)
    IN  [games_played |-> count, game |-> buid_with_seed(cash, dealer_pos, seed)]

\* LobbyBuilder::build: a dummy Game, games_played = 0, then start_new_game
InitLobby ==
    \E cash \in SeatLists : \E seed \in Seeds :
        LET started == start_new_game(0, cash, seed)
        IN  /\ seats = cash
            /\ games_played = started.games_played
            /\ game = started.game
            /\ last = [op |-> "build", kind |-> "None", amount |-> 0, res |-> "Ok"]
            /\ panicked = ""
            /\ action_log = <<>>
            /\ local = NoLocal
            /\ twin = None
            /\ cur = None
            /\ shown = None

\* Lobby::start_new_game, at any point of the running hand
StartNewGame ==
    /\ panicked = ""
    /\ games_played < MaxGames
    /\ \E seed \in Seeds :
           LET started == start_new_game(games_played, seats, seed)
           IN  /\ games_played' = started.games_played
               /\ game' = started.game
    /\ last' = [op |-> "start_new_game", kind |-> "None", amount |-> 0, res |-> "Ok"]
    /\ UNCHANGED <<seats, panicked, action_log, local, twin, cur, shown>>

NextLobby == StartNewGame

SpecLobby == InitLobby /\ [][NextLobby]_vars

----------------------------------------------------------------------------
(* A hand ticked by a Lobby whose action log is nearly full from earlier hands *)

\* the log starts with ACTION_LOG_SIZE - MaxLogRoom .. ACTION_LOG_SIZE entries
MaxLogRoom == 3

\* the k-th entry earlier hands left in the log
EarlierEntry(k) == [pid |-> Some(k % 2), msg |-> "earlier hand"]

\* a Lobby of two CPU seats at the start of a hand, its log holding the
\* entries of earlier hands
InitLog ==
    \E cash \in [0..1 -> {0, MaxCash * small_blind_amount}] :
      \E played \in 1..2 : \E seed \in Seeds :
        \E filled \in (ACTION_LOG_SIZE - MaxLogRoom)..ACTION_LOG_SIZE :
            /\ seats = cash
            /\ games_played = played
            /\ game = buid_with_seed(cash, played % 2, seed)
            /\ last = [op |-> "build", kind |-> "None", amount |-> 0, res |-> "Ok"]
            /\ panicked = ""
            /\ action_log = [k \in 1..filled |-> EarlierEntry(k)]
            /\ local = NoLocal
            /\ twin = None
            /\ cur = None
            /\ shown = None

NextLog == TickGame

SpecLog == InitLog /\ [][NextLog]_vars

----------------------------------------------------------------------------
(* A PlayerLocal whose action slot (Arc<RwLock<Option<Action>>>) is shared by  *)
(* the threads of the client, which call set_action, and the callers of act   *)

\* threads 1..MaxLocalThreads hold a reference to the slot
MaxLocalThreads == 3
\* set_action is called at most MaxSetCalls times
MaxSetCalls == 3

LocalThreads == 1..MaxLocalThreads

\* the actions the client's keys write (Fold, check)
LocalActions == {Fold, Call(0)}

\* an Option::take that only reads: the slot keeps its value
take_leaves_value(slot) == [value |-> slot, slot |-> slot]

\* Option::take under the write guard of PlayerLocal::take_next_action: the
\* value of the slot, and None left behind
take_next_action(slot) == [value |-> slot, slot |-> None]

\* PlayerLocal::set_action under its write guard: the slot holds the action
set_action(slot, action) == Some(action)

\* RwLock::write: thread t enters set_action or act once no thread holds the lock
LockWrite(t) ==
    /\ local.lock = 0
    /\ local.pc[t] = "idle"
    /\ \E op \in {"set_action", "act"} :
           /\ op = "set_action" => local.set_calls < MaxSetCalls
           /\ local' = [local EXCEPT !.lock = t, !.pc[t] = op]
    /\ UNCHANGED <<engine_vars, twin, cur, shown>>

\* PlayerLocal::set_action: the write and the drop of the guard.  The i-th
\* call of set_action writes the action tagged id = i.
SetAction(t) ==
    /\ local.pc[t] = "set_action"
    /\ \E a \in LocalActions :
           local' = [local EXCEPT
                        !.next_action = set_action(@, [id |-> local.set_calls + 1,
                                                       action |-> a]),
                        !.set_calls = @ + 1,
                        !.returned = Append(@, 0),
                        !.lock = 0,
                        !.pc[t] = "idle"]
    /\ UNCHANGED <<engine_vars, twin, cur, shown>>

\* PlayerLocal::act: take_next_action and the drop of the guard; returned counts
\* how often each written action came out of an act call
Act(t) ==
    /\ local.pc[t] = "act"
    /\ LET r == take_next_action(local.next_action)
       IN  local' = [local EXCEPT
                        !.next_action = r.slot,
                        !.act_result[t] = r.value,
                        !.returned = IF r.value = None THEN @
                                     ELSE [@ EXCEPT ![r.value[1].id] = @ + 1],
                        !.lock = 0,
                        !.pc[t] = "idle"]
    /\ UNCHANGED <<engine_vars, twin, cur, shown>>

\* PlayerLocal::new on a seat of a hand of two, shared with the threads
InitLocal ==
    /\ seats = [i \in 0..1 |-> MaxCash * small_blind_amount]
    /\ game = buid_with_seed(seats, 0, 1)
    /\ last = [op |-> "build", kind |-> "None", amount |-> 0, res |-> "Ok"]
    /\ panicked = ""
    /\ action_log = <<>>
    /\ games_played = 0
    /\ twin = None
    /\ cur = None
    /\ shown = None
    /\ local = [next_action |-> None, lock |-> 0,
                pc |-> [t \in LocalThreads |-> "idle"],
                set_calls |-> 0, returned |-> <<>>,
                act_result |-> [t \in LocalThreads |-> None]]

NextLocal == \E t \in LocalThreads : LockWrite(t) \/ SetAction(t) \/ Act(t)

SpecLocal == InitLocal /\ [][NextLocal]_vars

----------------------------------------------------------------------------
(* Two Games built with buid_with_seed from one seed, for the same number of *)
(* seats and the same dealer, and taken through the same phase advances      *)

\* Game::buid_with_seed, twice: the seat balances of the two games are free
InitSeed ==
    \E cash \in SeatLists : \E dealer_pos \in DOMAIN cash : \E seed \in Seeds :
        \E other \in [DOMAIN cash -> {0, MaxCash * small_blind_amount}] :
            /\ seats = cash
            /\ game = buid_with_seed(cash, dealer_pos, seed)
            /\ twin = Some(buid_with_seed(other, dealer_pos, seed))
            /\ last = [op |-> "build", kind |-> "None", amount |-> 0, res |-> "Ok"]
            /\ panicked = ""
            /\ action_log = <<>>
            /\ games_played = 0
            /\ local = NoLocal
            /\ cur = None
            /\ shown = None

\* Game::advance_phase on both games
AdvancePhaseBoth ==
    /\ panicked = ""
    /\ LET a == advance_phase(game)
           b == advance_phase(twin[1])
       IN  /\ game' = a.game
           /\ twin' = Some(b.game)
           /\ panicked' = IF a.panic # "" THEN a.panic ELSE b.panic
           /\ last' = [op |-> "advance_phase", kind |-> "None", amount |-> 0,
                       res |-> IF a.panic = "" /\ b.panic = "" THEN "Ok" ELSE "panic"]
    /\ UNCHANGED <<seats, action_log, games_played, local, cur, shown>>

NextSeed == AdvancePhaseBoth

SpecSeed == InitSeed /\ [][NextSeed]_vars

----------------------------------------------------------------------------
(* Currency: an i64 of cents, built from credits and cents and read back *)

\* Currency::new is tried on credits -MaxMajor..MaxMajor
MaxMajor == 2

\* i64 `/`: the quotient truncated towards zero (b > 0)
rust_div(a, b) == IF a >= 0 THEN a \div b ELSE -((-a) \div b)

\* i64 `%`: the remainder of the truncated division, with the sign of a
rust_rem(a, b) == a - b * rust_div(a, b)

\* Currency::new
new(credits_part, cents_part) == credits_part * CentsPerCredit + cents_part

\* Currency::cents
cents(c) == rust_rem(c, CentsPerCredit)

\* Currency::credits
credits(c) == rust_div(c, CentsPerCredit)

\* Currency::round_cents
round_cents(c) ==
    IF cents(c) < 50 THEN c - cents(c) ELSE c + (CentsPerCredit - cents(c))

\* the arguments of a Currency::new call that is yet to be made
InitCurrency ==
    \E major \in (-MaxMajor)..MaxMajor : \E minor \in 0..(CentsPerCredit - 1) :
        /\ cur = Some([step |-> "args", major |-> major, minor |-> minor,
                       c |-> 0, credits |-> 0, cents |-> 0, rounded |-> 0])
        /\ seats = [i \in 0..1 |-> MaxCash * small_blind_amount]
        /\ game = buid_with_seed(seats, 0, 1)
        /\ last = [op |-> "build", kind |-> "None", amount |-> 0, res |-> "Ok"]
        /\ panicked = ""
        /\ action_log = <<>>
        /\ games_played = 0
        /\ local = NoLocal
        /\ twin = None
        /\ shown = None

\* Currency::new(major, minor)
CurrencyNew ==
    /\ cur # None /\ cur[1].step = "args"
    /\ cur' = Some([cur[1] EXCEPT !.step = "new",
                                  !.c = new(cur[1].major, cur[1].minor)])
    /\ UNCHANGED <<engine_vars, local, twin, shown>>

\* .credits() and .cents() of the value
CurrencyParts ==
    /\ cur # None /\ cur[1].step = "new"
    /\ cur' = Some([cur[1] EXCEPT !.step = "parts",
                                  !.credits = credits(cur[1].c),
                                  !.cents = cents(cur[1].c)])
    /\ UNCHANGED <<engine_vars, local, twin, shown>>

\* .round_cents() of the value
CurrencyRound ==
    /\ cur # None /\ cur[1].step = "new"
    /\ cur' = Some([cur[1] EXCEPT !.step = "rounded",
                                  !.rounded = round_cents(cur[1].c)])
    /\ UNCHANGED <<engine_vars, local, twin, shown>>

NextCurrency == CurrencyNew \/ CurrencyParts \/ CurrencyRound

SpecCurrency == InitCurrency /\ [][NextCurrency]_vars

----------------------------------------------------------------------------
(* show_eval_cards on a sorted hand of seven cards (game/evaluation.rs) *)

\* the hands are drawn from the suits 0..MaxSuits-1 and from the ranks Two ..
\* MaxLowRank and Ace
MaxSuits == 2
MaxLowRank == 4

\* Rank::Two .. Rank::Ace as 0 .. 12
Two == 0
Five == 3
Ace == 12
NumRanks == 13

\* the suit of a card, in the order of the flush! macro: 0 Clubs, 1 Hearts,
\* 2 Spades, 3 Diamonds
CardSuit(c) == (c - 1) \div NumRanks

EvalRanks == Two..MaxLowRank \cup {Ace}

EvalDeck ==
    {c \in 1..DeckSize : CardSuit(c) < MaxSuits /\ CardRank(c) \in EvalRanks}

\* Vec::reverse
reversed(s) == [k \in 1..Len(s) |-> s[Len(s) - k + 1]]

\* Vec::truncate
truncate(s, n) == IF Len(s) <= n THEN s ELSE SubSeq(s, 1, n)

\* Ord of poker::Card compares the ranks only (the hands and the displays of
\* test_show_eval_cards fix it: "[ T♥ ][ T♣ ][ 3♣ ][ 3♥ ]" for Th Tc 3c 3h)
card_le(a, b) == CardRank(a) <= CardRank(b)

\* slice::is_sorted
is_sorted(s) == \A k \in 1..(Len(s) - 1) : card_le(s[k], s[k + 1])

\* slice::sort: stable, a card goes after the cards that are not greater
RECURSIVE sort(_)
sort(s) ==
    IF s = <<>> THEN <<>>
    ELSE LET done == sort(SubSeq(s, 1, Len(s) - 1))
             c == s[Len(s)]
             at == Cardinality({k \in 1..Len(done) : card_le(done[k], c)})
         IN  SubSeq(done, 1, at) \o <<c>> \o SubSeq(done, at + 1, Len(done))

\* the filter! macro: the cards from the last to the first that pass
filter_rank(cards, wanted) ==
    SelectSeq(reversed(cards), LAMBDA c : CardRank(c) \in wanted)

filter_suit(cards, suit) ==
    SelectSeq(reversed(cards), LAMBDA c : CardSuit(c) = suit)

\* the scards! macro: sort, reverse, truncate(5)
scards(collection) == truncate(reversed(sort(collection)), 5)

\* the flush! macro: the four suit groups, the longest first (sort_by_key is
\* stable: of two groups as long, the one of the earlier suit), cut to 5
flush(cards) ==
    LET v(suit) == filter_suit(cards, suit)
        longest == CHOOSE s \in 0..3 :
                       \A t \in 0..3 :
                           \/ Len(v(t)) < Len(v(s))
                           \/ (Len(v(t)) = Len(v(s)) /\ s <= t)
    IN  truncate(v(longest), 5)

\* a straight! that stops at Two instead of going on to the Ace
straight_without_wrap(passed, cards, rank) ==
    LET next(r) == r - 1
        wanted == [k \in 1..5 |-> rank - (k - 1)]
        found(k) == SelectSeq(cards, LAMBDA c : CardRank(c) = wanted[k])
    IN  IF \E k \in 1..5 : found(k) = <<>>
        THEN [cards |-> <<>>, panic |-> "index out of bounds"]
        ELSE [cards |-> reversed(sort([k \in 1..5 |-> found(k)[1]])),
              panic |-> ""]

\* the straight! macro: five times, the first card of next_rank, which goes
\* down from $rank and from Two on to the Ace; [0] of an empty Vec is out of
\* bounds. Its body reads `cards`, the seven cards of show_eval_cards, and
\* not its first argument $cards, which is passed here as `passed`
straight(passed, cards, rank) ==
    LET wanted == [k \in 1..5 |-> (rank - (k - 1) + NumRanks) % NumRanks]
        found(k) == SelectSeq(cards, LAMBDA c : CardRank(c) = wanted[k])
    IN  IF \E k \in 1..5 : found(k) = <<>>
        THEN [cards |-> <<>>, panic |-> "index out of bounds"]
        ELSE [cards |-> reversed(sort([k \in 1..5 |-> found(k)[1]])),
              panic |-> ""]

\* the ranks of the straight whose highest card is high (Five: 5 4 3 2 A)
StraightRanks(high) == {(high - k + NumRanks) % NumRanks : k \in 0..4}

\* Eval::classify of the poker crate on the best five of the seven cards
classify(cards) ==
    LET hand == {cards[k] : k \in DOMAIN cards}
        of_rank(r) == Cardinality({c \in hand : CardRank(c) = r})
        of_suit(s) == {c \in hand : CardSuit(c) = s}
        ranks_of(cs) == {CardRank(c) : c \in cs}
        straights(cs) == {h \in Five..Ace : StraightRanks(h) \subseteq ranks_of(cs)}
        flushes == UNION {straights(of_suit(s)) : s \in 0..3}
        at_least(n) == {r \in Two..Ace : of_rank(r) >= n}
    IN  IF flushes # {}
        THEN [name |-> "StraightFlush", rank |-> SetMax(flushes), low |-> 0]
        ELSE IF at_least(4) # {}
        THEN [name |-> "FourOfAKind", rank |-> SetMax(at_least(4)), low |-> 0]
        ELSE IF at_least(3) # {} /\ at_least(2) \ {SetMax(at_least(3))} # {}
        THEN [name |-> "FullHouse", rank |-> SetMax(at_least(3)),
              low |-> SetMax(at_least(2) \ {SetMax(at_least(3))})]
        ELSE IF \E s \in 0..3 : Cardinality(of_suit(s)) >= 5
        THEN [name |-> "Flush", rank |-> 0, low |-> 0]
        ELSE IF straights(hand) # {}
        THEN [name |-> "Straight", rank |-> SetMax(straights(hand)), low |-> 0]
        ELSE IF at_least(3) # {}
        THEN [name |-> "ThreeOfAKind", rank |-> SetMax(at_least(3)), low |-> 0]
        ELSE IF Cardinality(at_least(2)) >= 2
        THEN [name |-> "TwoPair", rank |-> SetMax(at_least(2)),
              low |-> SetMax(at_least(2) \ {SetMax(at_least(2))})]
        ELSE IF at_least(2) # {}
        THEN [name |-> "Pair", rank |-> SetMax(at_least(2)), low |-> 0]
        ELSE [name |-> "HighCard", rank |-> 0, low |-> 0]

\* show_eval_cards(cls, cards): the cards that show_cards prints, in the order
\* it prints them
show_eval_cards(cls, cards) ==
    LET fcards(wanted) == [cards |-> scards(filter_rank(cards, wanted)), panic |-> ""]
        scards_of(r) == IF r.panic # "" THEN r
                        ELSE [cards |-> scards(r.cards), panic |-> ""]
    IN  IF ~is_sorted(cards)
        THEN [cards |-> <<>>, panic |-> "assertion failed: cards.is_sorted()"]
        ELSE CASE cls.name = "HighCard" -> [cards |-> <<cards[7]>>, panic |-> ""]
               [] cls.name = "Pair" -> fcards({cls.rank})
               [] cls.name = "TwoPair" -> fcards({cls.rank, cls.low})
               [] cls.name = "ThreeOfAKind" -> fcards({cls.rank})
               [] cls.name = "Straight" -> scards_of(straight(cards, cards, cls.rank))
               [] cls.name = "Flush" -> [cards |-> scards(flush(cards)), panic |-> ""]
               [] cls.name = "FullHouse" -> fcards({cls.low, cls.rank})
               [] cls.name = "FourOfAKind" -> fcards({cls.rank})
               [] cls.name = "StraightFlush" ->
                      LET f == flush(cards)
                      IN  scards_of(straight(f, cards, cls.rank))

\* the orders in which the cards of one rank can stand in a sorted hand
SuitOrders == {o \in [1..MaxSuits -> 0..(MaxSuits - 1)] :
                   \A a, b \in 1..MaxSuits : o[a] = o[b] => a = b}

\* the seven cards of hand, sorted by rank, the cards of a rank in the order
\* tie gives to their suits
RECURSIVE sorted_hand(_, _, _)
sorted_hand(hand, tie, r) ==
    IF r > Ace THEN <<>>
    ELSE IF r \notin EvalRanks THEN sorted_hand(hand, tie, r + 1)
    ELSE SelectSeq([k \in 1..MaxSuits |-> r + NumRanks * tie[r][k] + 1],
                   LAMBDA c : c \in hand)
         \o sorted_hand(hand, tie, r + 1)

\* a sorted hand of seven cards before it is classified and shown
InitEval ==
    \E hand \in SUBSET EvalDeck : \E tie \in [EvalRanks -> SuitOrders] :
        /\ Cardinality(hand) = 7
        /\ \A r \in EvalRanks :
               Cardinality({c \in hand : CardRank(c) = r}) <= 1 => tie[r][1] = 0
        /\ shown = Some([step |-> "args", cards |-> sorted_hand(hand, tie, Two),
                         cls |-> [name |-> "", rank |-> 0, low |-> 0],
                         out |-> <<>>, panic |-> ""])
        /\ seats = [i \in 0..1 |-> MaxCash * small_blind_amount]
        /\ game = buid_with_seed(seats, 0, 1)
        /\ last = [op |-> "build", kind |-> "None", amount |-> 0, res |-> "Ok"]
        /\ panicked = ""
        /\ action_log = <<>>
        /\ games_played = 0
        /\ local = NoLocal
        /\ twin = None
        /\ cur = None

\* show_eval_cards(evaluator().evaluate_five(cards).unwrap().classify(), &cards)
ShowEvalCards ==
    /\ shown # None /\ shown[1].step = "args"
    /\ LET cls == classify(shown[1].cards)
           r == show_eval_cards(cls, shown[1].cards)
       IN  shown' = Some([shown[1] EXCEPT !.step = "shown", !.cls = cls,
                                          !.out = r.cards, !.panic = r.panic])
    /\ UNCHANGED <<engine_vars, local, twin, cur>>

NextEval == ShowEvalCards

SpecEval == InitEval /\ [][NextEval]_vars

----------------------------------------------------------------------------
(* Properties of the engine *)

\* the players still in the hand
ActivePlayers(g) == {i \in PlayerIDs(g) : is_playing(g.players[i].state)}

\* process_action on g reaches apply_action: the hand is running, at least two
\* players are in it and the player whose turn it is is one of them
Acting(g) ==
    /\ g.winner = None
    /\ Cardinality(ActivePlayers(g)) >= 2
    /\ is_playing(g.players[g.turn].state)

\* chips player i has put into the pot of g (Player::total_bet)
Committed_by(g, i) == g.players[i].total_bet + g.players[i].round_bet

Balance(g, i) == g.players[i].seat.currency

IsError(res) == res \notin {"Ok", "panic"}

\* the call `last` records was a Call or a Raise that returned an error
RejectedCallOrRaise(l) ==
    /\ l.op = "process_action"
    /\ l.kind \in {"Call", "Raise"}
    /\ IsError(l.res)

\* in the state reached, every Call whose amount is not the difference to the
\* highest bet or exceeds the balance, and every Raise whose amount exceeds the
\* balance or is below the minimum raise, is answered with an error
InvalidIsRejected ==
    Acting(game) =>
        \A a \in Amounts :
            LET player == game.players[game.turn]
                needed == highest_bet_of_round(game) - player.round_bet
            IN  /\ (a # needed \/ a > player.seat.currency)
                       => IsError(process_action(game, Some(Call(a))).res)
                /\ (a > player.seat.currency \/ a < min_raise_amount(game)
                        \/ game.state = "RaiseDisallowed")
                       => IsError(process_action(game, Some(Raise(a))).res)

\* C1: a Call or Raise that process_action validates and finds invalid (amount
\* mismatch, insufficient funds, raise not allowed, raise too small) is answered
\* with an error, and a call that returns an error for a Call or Raise leaves
\* the whole game as it was: every balance, round_bet, total_bet and state, the
\* turn, the phase and the community cards
C1_RejectionIsAtomic ==
    /\ []InvalidIsRejected
    /\ [][RejectedCallOrRaise(last') => (game' = game /\ panicked' = panicked)]_vars

\* a Raise got past every check of apply_action and failed in the withdrawal
C1_Witness ==
    /\ last.op = "process_action"
    /\ last.kind = "Raise"
    /\ last.res = "TooLittleCurrency"

\* C2: an accepted Call(a), Raise(a) or AllIn(a) takes exactly a from the acting
\* seat's balance and adds exactly a to what the acting player has bet; no
\* other player's balance or bet changes
C2_AcceptedAmountIsTheDelta ==
    [][(/\ Acting(game)
        /\ last'.op = "process_action"
        /\ last'.kind \in {"Call", "Raise", "AllIn"}
        /\ last'.res = "Ok")
       => LET t == game.turn
              a == last'.amount
          IN  /\ Balance(game', t) = Balance(game, t) - a
              /\ Committed_by(game', t) = Committed_by(game, t) + a
              /\ \A i \in PlayerIDs(game) \ {t} :
                     /\ Balance(game', i) = Balance(game, i)
                     /\ Committed_by(game', i) = Committed_by(game, i)]_vars

\* the blind seats of a hand of n players with dealer d, as claimed
ClaimedSmallBlind(n, d) == IF n = 2 THEN d ELSE (d + 1) % n

ClaimedBigBlind(n, d) == IF n = 2 THEN (d + 1) % 2 ELSE (d + 2) % n

\* C3: right after build the small-blind seat has paid small_blind and has
\* round_bet = small_blind, the big-blind seat has paid big_blind and has
\* round_bet = big_blind, and every other seat has its balance and round_bet 0
C3_BlindsAreDebited ==
    last.op = "build" =>
        LET n == NumPlayers(game)
            sb == ClaimedSmallBlind(n, game.dealer)
            bb == ClaimedBigBlind(n, game.dealer)
        IN  /\ Balance(game, sb) = seats[sb] - game.small_blind
            /\ game.players[sb].round_bet = game.small_blind
            /\ Balance(game, bb) = seats[bb] - game.big_blind
            /\ game.players[bb].round_bet = game.big_blind
            /\ \A i \in PlayerIDs(game) \ {sb, bb} :
                   /\ Balance(game, i) = seats[i]
                   /\ game.players[i].round_bet = 0

\* C4: the call that sets the winner credits the winner's seat with the pot as
\* it was before the payout, which is the pot the winner record carries, and
\* changes no other seat's balance
C4_PayoutCreditsThePot ==
    [][(game.winner = None /\ game'.winner # None)
       => LET w == game'.winner[1]
          IN  /\ w.pot = pot(game)
              /\ Balance(game', w.pid) = Balance(game, w.pid) + pot(game)
              /\ \A i \in PlayerIDs(game) \ {w.pid} :
                     Balance(game', i) = Balance(game, i)]_vars

\* a winner was declared after a betting round was folded into the pot and
\* bets of the running round were on the table
C4_Witness ==
    /\ game.winner # None
    /\ \E i \in PlayerIDs(game) : game.players[i].total_bet > 0
    /\ \E i \in PlayerIDs(game) : game.players[i].round_bet > 0

\* C5: once the winner is set, no later call changes it or any seat's balance:
\* the winner is set at most once and the pot is paid exactly once
C5_WinnerSetOnce ==
    [][game.winner # None
       => /\ game'.winner = game.winner
          /\ \A i \in PlayerIDs(game) : Balance(game', i) = Balance(game, i)]_vars

\* the hand has a winner and process_action was called again
C5_Witness ==
    /\ game.winner # None
    /\ last.op = "process_action"
    /\ last.res = "GameFinished"

\* C6: when a fold leaves one player in the hand, no community card is added
\* and no showdown runs from that fold on, and the next call declares that
\* player the winner as UnknownCards(pot, id) and pays the pot
C6_LastFoldEndsTheHand ==
    [][/\ (/\ Acting(game)
           /\ last'.op = "process_action"
           /\ last'.kind = "Fold"
           /\ Cardinality(ActivePlayers(game)) = 2)
          => /\ game'.community_cards = game.community_cards
             /\ panicked' = ""
       /\ (game.winner = None /\ Cardinality(ActivePlayers(game)) = 1)
          => LET id == CHOOSE i \in ActivePlayers(game) : TRUE
             IN  /\ game'.winner =
                        Some([kind |-> "UnknownCards", pot |-> pot(game), pid |-> id])
                 /\ Balance(game', id) = Balance(game, id) + pot(game)]_vars

\* C7: after build and after every process_action every seat's balance is >= 0
C7_BalancesNonNegative ==
    \A i \in PlayerIDs(game) : Balance(game, i) >= 0

\* C9: after build the blinds sit where the dealer position puts them: with two
\* players the dealer posts the small blind and the other seat the big blind,
\* with three or more the seats (d + 1) % n and (d + 2) % n
C9_BlindPositions ==
    last.op = "build" =>
        LET n == NumPlayers(game)
            sb == ClaimedSmallBlind(n, game.dealer)
            bb == ClaimedBigBlind(n, game.dealer)
        IN  /\ game.game_log[1] = [pid |-> Some(sb), msg |-> "Posts the small blind"]
            /\ game.game_log[2] = [pid |-> Some(bb), msg |-> "Posts the big blind"]
            /\ game.players[sb].round_bet = game.small_blind
            /\ game.players[bb].round_bet = game.big_blind

\* a fresh hand of three players whose dealer is the last seat: both blind
\* positions wrap around
C9_Witness ==
    /\ last.op = "build"
    /\ NumPlayers(game) = 3
    /\ game.dealer = 2
    /\ game.players[0].round_bet = game.small_blind

\* C10: the phase of a hand never goes back and never skips: every call leaves
\* it where it was or moves it to the next of Preflop, Flop, Turn, River
C10_PhaseMonotone ==
    [][\/ PhaseIdx(game'.phase) = PhaseIdx(game.phase)
       \/ PhaseIdx(game'.phase) = PhaseIdx(game.phase) + 1]_vars

\* a hand was played through to the River
C10_Witness ==
    /\ game.phase = "River"
    /\ Len(game.community_cards) = 5

\* C8: in a hand played by CPU seats only (each with 5000 credits, as in the
\* test), no tick_game call returns an error other than RaiseNotAllowed, and
\* the showdown does not end the process, so that the hand can go on to
\* is_finished()
C8_CpuHandRunsToTheEnd ==
    last.op = "tick_game" =>
        /\ last.res \in {"Ok", "RaiseNotAllowed", "panic"}
        /\ (panicked # "" => game.phase # "River")

\* the chips player i holds and has bet, together
Wealth(g, i) == Balance(g, i) + Committed_by(g, i)

\* C11: right after a phase transition every player's round_bet is 0 and the
\* player's total_bet is what total_bet and round_bet were together before the
\* transition: for a player who did not act in the call that is the bet of the
\* state before, for the acting player it includes the chips the call withdrew
C11_RoundBetsFoldedIntoTotal ==
    [][game'.phase # game.phase
       => \A i \in PlayerIDs(game) :
              /\ game'.players[i].round_bet = 0
              /\ game'.players[i].total_bet + Balance(game', i) = Wealth(game, i)
              /\ (i # game.turn \/ last'.kind \in {"None", "Fold"})
                     => game'.players[i].total_bet = Committed_by(game, i)]_vars

\* the Flop was reached with bets of the Preflop folded into total_bet
C11_Witness ==
    /\ game.phase = "Flop"
    /\ \A i \in PlayerIDs(game) : game.players[i].round_bet = 0
    /\ \E i \in PlayerIDs(game) : game.players[i].total_bet > game.big_blind

\* the sum of all bets, counted seat by seat over the set of players
RECURSIVE BetsOf(_, _)
BetsOf(g, S) ==
    IF S = {} THEN 0
    ELSE LET i == CHOOSE x \in S : TRUE
         IN  g.players[i].total_bet + g.players[i].round_bet + BetsOf(g, S \ {i})

\* C12: in every state pot() is the sum over all players of total_bet +
\* round_bet, and a call that moves the hand to the next phase changes the pot
\* by nothing but the chips that call took from the seats
C12_PotConserved ==
    /\ [](pot(game) = BetsOf(game, PlayerIDs(game)))
    /\ [][game'.phase # game.phase
          => pot(game') - pot(game) =
                 SumTo([i \in PlayerIDs(game) |-> Balance(game, i) - Balance(game', i)],
                       NumPlayers(game) - 1)]_vars

\* the Turn was reached with a pot above the blinds
C12_Witness ==
    /\ game.phase = "Turn"
    /\ pot(game) > game.small_blind + game.big_blind

\* C13: once a winner is set, process_action returns GameFinished for every
\* argument and leaves the game as it is, and tick_game returns GameFinished
\* and changes nothing: no balance, bet, player state, turn, phase, card,
\* winner or log
C13_FinishedHandIsFrozen ==
    /\ [](game.winner # None
          => \A action \in {None} \cup {Some(a) : a \in Actions} :
                 process_action(game, action) =
                     [game |-> game, res |-> "GameFinished", panic |-> ""])
    /\ [][game.winner # None
          => /\ last'.res = "GameFinished"
             /\ game' = game
             /\ seats' = seats
             /\ action_log' = action_log
             /\ panicked' = panicked]_vars

\* tick_game was called on a hand that has a winner
C13_Witness ==
    /\ game.winner # None
    /\ last.op = "tick_game"
    /\ last.res = "GameFinished"

\* C14 as stated: process_action(None), called when the seat whose turn it is
\* is active, returns Ok and leaves the whole game state unchanged
C14_NoActionChangesNothing_AsStated ==
    [][(/\ last'.op = "process_action"
        /\ last'.kind = "None"
        /\ is_playing(game.players[game.turn].state))
       => (last'.res = "Ok" /\ game' = game /\ panicked' = panicked)]_vars

\* C14: process_action(None), called on a hand without a winner in which at
\* least two players are active and the seat whose turn it is is one of them,
\* returns Ok and leaves the whole game state unchanged (turn, phase, bets,
\* balances, player states, cards and log)
C14_NoActionChangesNothing ==
    /\ [](Acting(game)
          => process_action(game, None) = [game |-> game, res |-> "Ok", panic |-> ""])
    /\ [][(/\ last'.op = "process_action"
           /\ last'.kind = "None"
           /\ Acting(game))
          => (last'.res = "Ok" /\ game' = game /\ panicked' = panicked)]_vars

\* the caller polled with None in the middle of a hand, on the Flop
C14_Witness ==
    /\ last.op = "process_action"
    /\ last.kind = "None"
    /\ last.res = "Ok"
    /\ Acting(game)
    /\ game.phase = "Flop"

\* C15: act takes and clears the shared slot in one step under the write lock:
\* under every interleaving of set_action and act calls at most one thread is
\* inside the slot, an action written once is returned by at most one act
\* call, and an act call returns what the slot held (None for an empty slot,
\* without waiting for an action) and leaves the slot empty
C15_ActTakesAndClears ==
    /\ [](\A id \in DOMAIN local.returned : local.returned[id] <= 1)
    /\ [](Cardinality({t \in LocalThreads : local.pc[t] # "idle"}) <= 1)
    /\ [][\A t \in LocalThreads :
              (local.pc[t] = "act" /\ local'.pc[t] = "idle")
                  => /\ local'.act_result[t] = local.next_action
                     /\ local'.next_action = None]_vars

\* two actions were written and each came out of one act call, of two
\* different threads
C15_Witness ==
    /\ local.set_calls >= 2
    /\ local.returned[1] = 1
    /\ local.returned[2] = 1
    /\ \E t, u \in LocalThreads :
           /\ t # u
           /\ local.act_result[t] # None /\ local.act_result[t][1].id = 1
           /\ local.act_result[u] # None /\ local.act_result[u][1].id = 2

C17_CurrencyRoundTrip ==
    (cur # None /\ cur[1].step = "parts")
        => (cur[1].credits = cur[1].major /\ cur[1].cents = cur[1].minor)

\* the distance of two amounts
Dist(a, b) == IF a >= b THEN a - b ELSE b - a

\* C18: for every Currency value c, positive, zero or negative, round_cents(c)
\* is a whole number of credits within 50 cents of c: the credit below when c
\* is less than 50 cents above it, the credit above otherwise
C18_RoundCentsToNearestCredit ==
    (cur # None /\ cur[1].step = "rounded")
        => LET c == cur[1].c
               r == cur[1].rounded
               below == c - (c % CentsPerCredit)
           IN  /\ cents(r) = 0
               /\ Dist(r, c) <= 50
               /\ r = IF c - below < 50 THEN below ELSE below + CentsPerCredit

\* C19: every start_new_game call adds exactly one to games_played and builds
\* a fresh Game whose dealer is games_played mod the number of seats: the
\* dealer is always a seat index and moves to the next seat, cyclically, from
\* one hand to the next
C19_DealerRotates ==
    /\ [](last.op \in {"build", "start_new_game"}
          => /\ game.dealer = games_played % Cardinality(DOMAIN seats)
             /\ game.dealer \in DOMAIN seats
             /\ NumPlayers(game) = Cardinality(DOMAIN seats)
             /\ game.phase = "Preflop" /\ game.winner = None)
    /\ [][last'.op = "start_new_game"
          => /\ games_played' = games_played + 1
             /\ game'.dealer = (game.dealer + 1) % Cardinality(DOMAIN seats)]_vars

\* the third hand of a lobby of three seats: the dealer is back on seat 0
C19_Witness ==
    /\ last.op = "start_new_game"
    /\ Cardinality(DOMAIN seats) = 3
    /\ games_played = 3
    /\ game.dealer = 0

\* the last n entries of a sequence
LastN(s, n) == IF Len(s) <= n THEN s ELSE SubSeq(s, Len(s) - n + 1, Len(s))

\* the per-hand logs a tick of the hand g can drain: the log after
\* process_action on what the CPU player answers
Drains(g) ==
    {process_action(g, Some(act(g, g.players[g.turn], disc))).game.game_log :
         disc \in Discs}

\* C20: the Lobby's action log never holds more than 2000 entries; a tick that
\* reaches update_action_log (it returns, and the hand was not finished
\* before it) leaves in the action log the most recent 2000 of the entries it
\* held followed by the drained ones, in their order, and leaves the Game's
\* log empty; no other tick touches the action log
C20_ActionLogKeepsTheNewest ==
    /\ [](Len(action_log) <= ACTION_LOG_SIZE)
    /\ []((last.op = "tick_game" /\ panicked = "") => game.game_log = <<>>)
    /\ [][IF panicked' = "" /\ last'.res # "GameFinished"
          THEN /\ game'.game_log = <<>>
               /\ \E drained \in Drains(game) :
                      action_log' = LastN(action_log \o drained, ACTION_LOG_SIZE)
          ELSE action_log' = action_log]_vars

\* the log is full, entries of earlier hands were evicted from its front, and
\* the entries of this hand, up to the winner, are its newest
C20_Witness ==
    /\ last.op = "tick_game"
    /\ Len(action_log) = ACTION_LOG_SIZE
    /\ action_log[ACTION_LOG_SIZE].msg = "Winner"
    /\ action_log[ACTION_LOG_SIZE - MaxLogRoom].msg # "earlier hand"
    /\ action_log[1] = EarlierEntry(2)

\* the ranks of the cards of a sequence, in its order
RanksOf(s) == [k \in 1..Len(s) |-> CardRank(s[k])]

\* a hand has been classified and shown
Shown(name) == shown # None /\ shown[1].step = "shown" /\ shown[1].cls.name = name

\* C21: for a hand classified as Straight with high rank r, show_eval_cards
\* returns five cards of the hand, one of each rank r, r-1, .., r-4 (below Two
\* comes the Ace), highest rank first: A,5,4,3,2 for the five-high wheel
C21_StraightShowsItsFiveRanks ==
    Shown("Straight")
        => LET r == shown[1].cls.rank
               out == shown[1].out
           IN  /\ shown[1].panic = ""
               /\ Len(out) = 5
               /\ \A k \in 1..5 : \E j \in 1..7 : out[k] = shown[1].cards[j]
               /\ {CardRank(out[k]) : k \in 1..5} = StraightRanks(r)
               /\ r = Five => RanksOf(out) = <<Ace, 3, 2, 1, Two>>
               /\ r > Five => RanksOf(out) = [k \in 1..5 |-> r - (k - 1)]

\* a wheel was shown as A,5,4,3,2 from a hand that holds a second Five
C21_Witness ==
    /\ Shown("Straight")
    /\ shown[1].cls.rank = Five
    /\ RanksOf(shown[1].out) = <<Ace, 3, 2, 1, Two>>
    /\ Cardinality({j \in 1..7 : CardRank(shown[1].cards[j]) = Five}) = 2

\* the suit of a hand that holds five cards or more
FlushSuit(cards) ==
    CHOOSE s \in 0..3 : Cardinality({j \in DOMAIN cards : CardSuit(cards[j]) = s}) >= 5

\* C22: for a hand classified as StraightFlush, the five cards that
\* show_eval_cards returns all belong to the flush suit
C22_StraightFlushShowsTheFlushSuit ==
    Shown("StraightFlush")
        => /\ shown[1].panic = ""
           /\ Len(shown[1].out) = 5
           /\ \A k \in 1..5 : CardSuit(shown[1].out[k]) = FlushSuit(shown[1].cards)

\* what the acting player has to add to match the highest bet of the round
required_call(g) == highest_bet_of_round(g) - g.players[g.turn].round_bet

\* C23: a Raise(amount) that reaches the amount checks of apply_action (raises
\* are allowed and the amount is within the balance) with an amount below
\* min_raise_amount() + (highest_bet_of_round() - round_bet) is answered with
\* the raise-too-small error
C23_RaiseBelowCallPlusMinimumIsRejected ==
    Acting(game) =>
        \A a \in Amounts :
            (/\ game.state # "RaiseDisallowed"
             /\ a <= Balance(game, game.turn)
             /\ a < min_raise_amount(game) + required_call(game))
                => process_action(game, Some(Raise(a))).res = "RaiseTooSmall"

\* the messages of the panics that end a showdown
ShowdownPanics == {"index out of bounds", "not yet implemented: We have a draw!"}

\* the step ran Game::showdown: it ended in one of its panics or set a
\* KnownCards winner
ShowdownRan ==
    /\ panicked = ""
    /\ \/ panicked' \in ShowdownPanics
       \/ /\ game.winner = None
          /\ game'.winner # None
          /\ game'.winner[1].kind = "KnownCards"

\* C24: the call that enters the River deals the fifth community card, sets
\* no winner and runs no showdown; a showdown only runs in a call made in the
\* River phase, and a KnownCards winner only exists in the River phase
C24_ShowdownOnlyOutOfRiver ==
    /\ [][(game.phase = "Turn" /\ game'.phase = "River")
          => /\ Len(game'.community_cards) = 5
             /\ game'.winner = None
             /\ panicked' = ""]_vars
    /\ [][ShowdownRan => (game.phase = "River" /\ game'.phase = "River")]_vars
    /\ []((game.winner # None /\ game.winner[1].kind = "KnownCards")
          => game.phase = "River")

\* a call made in the River phase, after the River card was dealt, ran the
\* showdown
C24_Witness ==
    /\ game.phase = "River"
    /\ Len(game.community_cards) = 5
    /\ panicked \in ShowdownPanics
    /\ last.op = "process_action"

\* the players Game::showdown evaluates, and what it is given for each
Evaluated(g) == {i \in PlayerIDs(g) : g.players[i].state = "Playing"}

EvalOf(g, i) == evaluate_five(g.players[i].hand \o g.community_cards)

\* of two or more evaluated players, one has a rank strictly better than
\* every other's
StrictlyBest(g, i) ==
    /\ i \in Evaluated(g)
    /\ Cardinality(Evaluated(g)) >= 2
    /\ \A j \in Evaluated(g) \ {i} : EvalOf(g, j) < EvalOf(g, i)

\* C25: a showdown in which one evaluated player's rank is strictly better
\* than every other evaluated player's does not abort and sets that player as
\* the KnownCards winner of the whole pot
C25_ShowdownPaysTheBest ==
    [][\A i \in PlayerIDs(game) :
           (ShowdownRan /\ StrictlyBest(game', i))
               => /\ panicked' = ""
                  /\ game'.winner # None
                  /\ game'.winner[1].kind = "KnownCards"
                  /\ game'.winner[1].pid = i
                  /\ game'.winner[1].pot = pot(game')]_vars

\* the state, balance and chips in the pot of every player are in h what they
\* are in g
PlayersUntouched(g, h) ==
    \A i \in PlayerIDs(g) :
        /\ h.players[i].state = g.players[i].state
        /\ Balance(h, i) = Balance(g, i)
        /\ Committed_by(h, i) = Committed_by(g, i)

\* a call of process_action on g finds the seat whose turn it is not active
TurnOfInactive(g) == ~is_playing(g.players[g.turn].state)

\* the hand of g is running with two players or more, and the seat whose turn
\* it is is not active
Skipping(g) ==
    /\ g.winner = None
    /\ Cardinality(ActivePlayers(g)) >= 2
    /\ TurnOfInactive(g)

C27_AllInPlayerIsSkipped ==
    [][(/\ last'.op = "process_action"
        /\ Acting(game)
        /\ game.players[game.turn].state = "AllIn")
       => /\ game'.players[game.turn].state = "AllIn"
          /\ Balance(game', game.turn) = Balance(game, game.turn)
          /\ Committed_by(game', game.turn) = Committed_by(game, game.turn)
          /\ last'.res \in {"Ok", "panic"}]_vars

\* C28: an AllIn(amount) that reaches apply_action is accepted when amount is
\* the acting seat's whole balance and only then; an accepted one leaves the
\* player in state AllIn with a balance of zero and amount more chips bet; a
\* mismatch is answered with an error and changes nothing, the player's state
\* included
C28_AllInTakesTheWholeBalance ==
    /\ [](Acting(game)
          => \A a \in Amounts :
                 LET r == process_action(game, Some(AllIn(a)))
                 IN  IF a = Balance(game, game.turn)
                     THEN r.res \in {"Ok", "panic"}
                     ELSE r.res = "BetAmountMismatch" /\ r.game = game)
    /\ [][(/\ Acting(game)
           /\ last'.op = "process_action"
           /\ last'.kind = "AllIn"
           /\ last'.res = "Ok")
          => LET t == game.turn
             IN  /\ last'.amount = Balance(game, t)
                 /\ game'.players[t].state = "AllIn"
                 /\ Balance(game', t) = 0
                 /\ Committed_by(game', t) = Committed_by(game, t) + last'.amount]_vars

\* a player in state Playing went all in with a balance above zero
C28_Witness ==
    /\ last.op = "process_action"
    /\ last.kind = "AllIn"
    /\ last.res = "Ok"
    /\ last.amount > 0
    /\ \E i \in PlayerIDs(game) :
           /\ game.players[i].state = "AllIn"
           /\ Balance(game, i) = 0
           /\ Committed_by(game, i) > last.amount

\* C29: a Fold that reaches apply_action succeeds, sets the acting player's
\* state to Folded and changes nothing else; the call it is made in moves no
\* funds: every balance and every player's chips in the pot stay as they are
\* (round_bet and total_bet each, unless the call also ends the betting round)
C29_FoldMovesNoFunds ==
    /\ [](Acting(game)
          => apply_action(game, Fold) =
                 [game |-> [game EXCEPT !.players[game.turn].state = "Folded"],
                  res |-> "Ok"])
    /\ [][(/\ Acting(game)
           /\ last'.op = "process_action"
           /\ last'.kind = "Fold")
          => /\ last'.res \in {"Ok", "panic"}
             /\ game'.players[game.turn].state = "Folded"
             /\ pot(game') = pot(game)
             /\ \A i \in PlayerIDs(game) :
                    /\ Balance(game', i) = Balance(game, i)
                    /\ Committed_by(game', i) = Committed_by(game, i)
                    /\ game'.phase = game.phase
                           => /\ game'.players[i].round_bet = game.players[i].round_bet
                              /\ game'.players[i].total_bet = game.players[i].total_bet]_vars

\* a player folded after raising, two players stay in the hand and the chips
\* of the folded player are in the pot
C29_Witness ==
    /\ last.op = "process_action"
    /\ last.kind = "Fold"
    /\ last.res = "Ok"
    /\ Cardinality(ActivePlayers(game)) >= 2
    /\ \E i \in PlayerIDs(game) :
           /\ game.players[i].state = "Folded"
           /\ Committed_by(game, i) > game.big_blind
           /\ pot(game) >= Committed_by(game, i) + game.big_blind

\* the community cards a hand has in each phase
CardsOnTable(phase) ==
    CASE phase = "Preflop" -> 0
      [] phase = "Flop" -> 3
      [] phase = "Turn" -> 4
      [] phase = "River" -> 5

\* C30: the number of community cards is 0 in Preflop, 3 in Flop, 4 in Turn
\* and 5 in River; a call that moves the hand to the next phase takes the top
\* card of the deck away unseen and puts the 3 (Flop) or 1 (Turn, River) cards
\* below it on the table, and no other call touches the deck or the table
C30_BurnOneThenDeal ==
    /\ [](Len(game.community_cards) = CardsOnTable(game.phase))
    /\ [][IF game'.phase # game.phase
          THEN LET k == CardsOnTable(game'.phase) - CardsOnTable(game.phase)
                   top == Len(game.deck)
               IN  /\ k = (IF game.phase = "Preflop" THEN 3 ELSE 1)
                   /\ game'.deck = SubSeq(game.deck, 1, top - (k + 1))
                   /\ game'.community_cards =
                          game.community_cards \o [j \in 1..k |-> game.deck[top - j]]
          ELSE /\ game'.deck = game.deck
               /\ game'.community_cards = game.community_cards]_vars

\* a hand of three players reached the River: eight cards have left the deck
\* since the hands were dealt, five of them are on the table
C30_Witness ==
    /\ game.phase = "River"
    /\ NumPlayers(game) = 3
    /\ Len(game.deck) = DeckSize - 2 * NumPlayers(game) - 8
    /\ Len(game.community_cards) = 5
    /\ last.res = "Ok"

\* the cards of a sequence
CardsIn(s) == {s[k] : k \in DOMAIN s}

\* the hole cards of all players of g
HoleCards(g) == UNION {CardsIn(g.players[i].hand) : i \in PlayerIDs(g)}

\* the cards burned so far in g: one at the start of each phase after Preflop
Burned(g) ==
    {shuffled_with(g.seed)[DeckSize - 2 * NumPlayers(g) - CardsOnTable(Phases[p - 1]) - (p - 2)]
         : p \in 2..PhaseIdx(g.phase)}

\* C31: every player holds 2 hole cards, those drawn from the tail of the
\* shuffled deck in seat order; hole cards, community cards, burned cards and
\* the remaining deck are pairwise disjoint and together the 52 cards; the
\* community cards are at most 5 and are only appended to, and no call
\* changes a hand
C31_CardsPartitionTheDeck ==
    /\ [](/\ \A i \in PlayerIDs(game) :
                 /\ Len(game.players[i].hand) = 2
                 /\ game.players[i].hand =
                        <<shuffled_with(game.seed)[DeckSize - 2 * i],
                          shuffled_with(game.seed)[DeckSize - 2 * i - 1]>>
          /\ Cardinality(HoleCards(game)) = 2 * NumPlayers(game)
          /\ Cardinality(CardsIn(game.community_cards)) = Len(game.community_cards)
          /\ Cardinality(CardsIn(game.deck)) = Len(game.deck)
          /\ Cardinality(Burned(game)) = PhaseIdx(game.phase) - 1
          /\ HoleCards(game) \cap CardsIn(game.community_cards) = {}
          /\ HoleCards(game) \cap CardsIn(game.deck) = {}
          /\ HoleCards(game) \cap Burned(game) = {}
          /\ CardsIn(game.community_cards) \cap CardsIn(game.deck) = {}
          /\ CardsIn(game.community_cards) \cap Burned(game) = {}
          /\ CardsIn(game.deck) \cap Burned(game) = {}
          /\ HoleCards(game) \cup CardsIn(game.community_cards)
                 \cup Burned(game) \cup CardsIn(game.deck) = 1..DeckSize
          /\ Len(game.community_cards) <= 5)
    /\ [][/\ Len(game'.community_cards) >= Len(game.community_cards)
          /\ SubSeq(game'.community_cards, 1, Len(game.community_cards))
                 = game.community_cards
          /\ \A i \in PlayerIDs(game) : game'.players[i].hand = game.players[i].hand]_vars

\* a hand of three players on the Turn: six hole cards, four community cards,
\* two burned cards and forty cards in the deck
C31_Witness ==
    /\ game.phase = "Turn"
    /\ NumPlayers(game) = 3
    /\ Cardinality(HoleCards(game)) = 6
    /\ Len(game.community_cards) = 4
    /\ Cardinality(Burned(game)) = 2
    /\ Len(game.deck) = 40

\* C32: every Raise that PlayerCPU::act returns for the player whose turn it
\* is is one the seat can afford (the balance covers the raise and the
\* required call), and the engine does not reject it for lack of funds
C32_CpuRaiseIsAffordable ==
    (Acting(game) /\ panicked = "")
        => \A disc \in Discs :
               LET a == act(game, game.players[game.turn], disc)
               IN  a.kind = "Raise"
                       => /\ a.amount + required_call(game) <= Balance(game, game.turn)
                          /\ process_action(game, Some(a)).res
                                 \notin {"InsufficientFunds", "TooLittleCurrency"}

\* C33: a tick_game call in which process_action rejects the action returns
\* that error and leaves every seat's balance in the Lobby as it was before
\* the tick
C33_RejectedActionCostsNothing ==
    [][(/\ last'.op = "tick_game"
        /\ ~is_finished(game)
        /\ panicked' = ""
        /\ IsError(last'.res))
       => /\ \E disc \in Discs :
                 last'.res = process_action(game, Some(act(game, game.players[game.turn],
                                                          disc))).res
          /\ seats' = seats]_vars

\* C34: set_action writes into the action slot only when the slot is empty, so
\* a pending action is never overwritten: every action written is either
\* still in the slot or has come out of an act call
C34_PendingActionIsNeverOverwritten ==
    /\ [](\A id \in DOMAIN local.returned :
              \/ local.returned[id] = 1
              \/ /\ local.next_action # None
                 /\ local.next_action[1].id = id)
    /\ [][\A t \in LocalThreads :
              (local.pc[t] = "set_action" /\ local'.pc[t] = "idle")
                  => local.next_action = None]_vars

\* the game as the phase advance of process_action(g, Some(a)) finds it: after
\* apply_action for a seat that acts, untouched for a seat that is skipped
BeforeAdvance(g, a) ==
    IF is_playing(g.players[g.turn].state) THEN apply_action(g, a).game ELSE g

\* every player in state Playing has put in the highest bet of the round
BetsSettled(g) ==
    \A i \in PlayerIDs(g) :
        g.players[i].state = "Playing"
            => g.players[i].round_bet = highest_bet_of_round(g)

\* C35: at every phase transition all players still in state Playing have the
\* same round_bet, equal to highest_bet_of_round(): the phase advances only
\* when betting is complete, never while a player still owes a call
C35_PhaseAdvancesOnSettledBets ==
    [][(game'.phase # game.phase /\ panicked' = "")
           => \A a \in Actions :
                  process_action(game, Some(a)).game = game'
                      => BetsSettled(BeforeAdvance(game, a))]_vars

----------------------------------------------------------------------------
(* A Lobby of CPU players that plays hand after hand: the client ticks the   *)
(* running hand and starts the next one once the hand is finished            *)

\* the client starts hands while games_played < MaxHands
MaxHands == 2

\* PoksTUI::handle_event, F6 or space: start_new_game once the hand is finished
StartNextHand ==
    /\ is_finished(game)
    /\ games_played < MaxHands
    /\ StartNewGame

\* get_world and LobbyBuilder::build: two CPU seats with StartCredits each
InitHands ==
    \E seed \in Seeds :
        LET cash == [i \in 0..1 |-> CU(StartCredits)]
            started == start_new_game(0, cash, seed)
        IN  /\ seats = cash
            /\ games_played = started.games_played
            /\ game = started.game
            /\ last = [op |-> "build", kind |-> "None", amount |-> 0, res |-> "Ok"]
            /\ panicked = ""
            /\ action_log = <<>>
            /\ local = NoLocal
            /\ twin = None
            /\ cur = None
            /\ shown = None

\* the draws followed from hand to hand: a Fold, a call, a raise over the call
HandDiscs == {0, 10, 70}

\* Lobby::tick_game with the draws of HandDiscs
TickHand == TickGameDrawing(HandDiscs)

NextHands == TickHand \/ StartNextHand

SpecHands == InitHands /\ [][NextHands]_vars

TotalCash(cash) == SumTo(cash, Cardinality(DOMAIN cash) - 1)

\* the sum of the balances the Game holds for its players
TotalBalance(g) == SumTo([i \in PlayerIDs(g) |-> Balance(g, i)], NumPlayers(g) - 1)

\* C37: after LobbyBuilder::build exactly one hand's blinds have been taken:
\* the balances add up to the sum build was given minus small_blind +
\* big_blind, and the same holds after each start_new_game relative to the
\* balances just before it (on the Lobby's seats or on the seats of the Game)
C37_OneHandsBlindsAreTaken ==
    /\ [](last.op = "build"
              => TotalBalance(game) = TotalCash(seats) - (game.small_blind + game.big_blind))
    /\ [][last'.op = "start_new_game"
              => LET due == TotalCash(seats) - (game'.small_blind + game'.big_blind)
                 IN  TotalCash(seats') = due \/ TotalBalance(game') = due]_vars

----------------------------------------------------------------------------
(* A hand at a full table: every seat count build accepts, and every player  *)
(* checks or calls until the river                                           *)

\* seat counts 2..MaxDeckSeats are built
MaxDeckSeats == 26

\* the seat counts Game::buid_with_seed accepts: at least 2, at most
\* deck.len() / 2
DeckSeats == {n \in 2..MaxDeckSeats : ~(n > DeckSize \div 2)}

\* Game::build for n seats with MaxCash small blinds each
InitDeck ==
    \E n \in DeckSeats : \E seed \in Seeds :
        /\ seats = [i \in 0..(n - 1) |-> MaxCash * small_blind_amount]
        /\ game = buid_with_seed(seats, 0, seed)
        /\ last = [op |-> "build", kind |-> "None", amount |-> 0, res |-> "Ok"]
        /\ panicked = ""
        /\ action_log = <<>>
        /\ games_played = 0
        /\ local = NoLocal
        /\ twin = None
        /\ cur = None
        /\ shown = None

\* Game::process_action with Game::action_call for the player whose turn it is
CheckOrCall ==
    /\ panicked = ""
    /\ ~is_finished(game)
    /\ LET action == Some(action_call(game))
           r == process_action(game, action)
       IN  /\ game' = r.game
           /\ panicked' = r.panic
           /\ last' = Called("process_action", action, r.res)
    /\ UNCHANGED <<seats, action_log, games_played, local, twin, cur, shown>>

NextDeck == CheckOrCall

SpecDeck == InitDeck /\ [][NextDeck]_vars

\* C38: for every seat count build accepts the deck never runs out during the
\* hand: every burn and every community-card draw up to the river finds a
\* card, and draw_card never pops an empty deck
C38_DeckNeverRunsOut ==
    panicked # "called Option::unwrap() on a None value"

\* the players who have not folded
NotFolded(g) == {i \in PlayerIDs(g) : is_playing(g.players[i].state)}

\* C39: every player who has not folded when the showdown runs, players in
\* state AllIn included, is evaluated: a showdown with at least two players
\* who have not folded has at least two evaluated hands, and never finds its
\* list of evaluations empty
C39_AllInPlayersAreEvaluated ==
    [][ShowdownRan
           => /\ Evaluated(game') = NotFolded(game')
              /\ Cardinality(NotFolded(game')) >= 2
                     => /\ Cardinality(Evaluated(game')) >= 2
                        /\ panicked' # "index out of bounds"]_vars

\* C40: Game::state() is Finished exactly when a winner has been set
\* (is_finished() is true), from the step that sets the winner on and never
\* before, and it is RaiseDisallowed in every state in which the engine
\* rejects a raise as not allowed
C40_StateFollowsTheHand ==
    /\ (game.state = "Finished") <=> is_finished(game)
    /\ \A a \in Amounts :
           (Acting(game) /\ apply_action(game, Raise(a)).res = "RaiseNotAllowed")
               => game.state = "RaiseDisallowed"

====
